---------------------------- MODULE Spec2Model ----------------------------
(***************************************************************************)
(* A model of the lesson REST backend in src/Express.js: the five request  *)
(* handlers that use the document store (GET /search, GET /lessons,        *)
(* POST /order, PUT /updateLesson/:id, DELETE /deleteLesson/:id), the      *)
(* centralized error middleware, and the two collections (lessons, order)  *)
(* they read and write.                                                    *)
(*                                                                         *)
(* A request occupies a slot.  The synchronous part of a handler is one    *)
(* action (validation, then either a response or a store call); a store    *)
(* call that settles is a second action: the store applies the operation   *)
(* atomically and the promise callback builds the response from its        *)
(* result, or the call rejects and the catch path runs.  GET /search       *)
(* awaits twice, so it has one settling action per store call.             *)
(*                                                                         *)
(* Text is a sequence of one-character strings, so that tokenising,        *)
(* case folding and pattern matching are computed and not assumed.         *)
(***************************************************************************)
EXTENDS Integers, Sequences, FiniteSets, TLC

VARIABLES
    lessons,    \* the "lessons" collection: ObjectId -> document fields
    orders,     \* the "order" collection: ObjectId -> document fields
    req         \* the request slots: handler, inputs, position, responses

vars == <<lessons, orders, req>>

----------------------------------------------------------------------------
(* Bounds.                                                                 *)

\* The number of requests that one behaviour receives (all may be in
\* flight at once).
NReq == 2

Req == 1..NReq

----------------------------------------------------------------------------
(* Characters and case folding.                                            *)

UpperChars == <<"A","B","C","D","E","F","G","H","I","J","K","L","M",
                "N","O","P","Q","R","S","T","U","V","W","X","Y","Z">>

LowerChars == <<"a","b","c","d","e","f","g","h","i","j","k","l","m",
                "n","o","p","q","r","s","t","u","v","w","x","y","z">>

DigitChars == {"0","1","2","3","4","5","6","7","8","9"}

Range(s) == { s[i] : i \in DOMAIN s }

\* Case folding of one character (the "i" option of $regex, the case
\* insensitivity of $text, and the hex digits of an ObjectId).
Lower(c) ==
    IF \E i \in DOMAIN UpperChars : UpperChars[i] = c
    THEN LowerChars[CHOOSE i \in DOMAIN UpperChars : UpperChars[i] = c]
    ELSE c

LowerSeq(s) == [ i \in DOMAIN s |-> Lower(s[i]) ]

IsWordChar(c) == c \in Range(UpperChars) \cup Range(LowerChars) \cup DigitChars

Rep(c, n) == [ i \in 1..n |-> c ]

----------------------------------------------------------------------------
(* ObjectId: the store's identifier format (mongodb's ObjectId).           *)

\* An identifier string is 24 hexadecimal digits.
ObjectIdHexLen == 24

HexChars == DigitChars \cup {"a","b","c","d","e","f","A","B","C","D","E","F"}

\* ObjectId.isValid(id), for a string id.
ObjectIdIsValid(id) ==
    /\ Len(id) = ObjectIdHexLen
    /\ \A i \in DOMAIN id : id[i] \in HexChars

\* new ObjectId(id): the 12 bytes the hex string denotes, written here in
\* the canonical lower-case hex form; "AB.." and "ab.." are one ObjectId.
NewObjectId(id) == LowerSeq(id)

\* The identifier the driver generates for the n-th inserted document:
\* distinct for distinct n.
DigitOf(n) == CHOOSE d \in DigitChars : d = ToString(n)

GeneratedObjectId(n) ==
    [ i \in 1..ObjectIdHexLen |-> IF i = ObjectIdHexLen THEN DigitOf(n % 10) ELSE "0" ]

----------------------------------------------------------------------------
(* The store's two find queries of GET /search.                            *)

\* The terms of a text: its maximal runs of word characters, case folded.
\* (The store also stems terms and drops stop words; on the words used
\* here stemming is the identity, and the one stop word used, "at", is a
\* term of no document.)
Tokens(s) ==
    { LowerSeq(SubSeq(s, i, j)) : <<i, j>> \in
        { p \in (DOMAIN s) \X (DOMAIN s) :
            /\ p[1] <= p[2]
            /\ \A k \in p[1]..p[2] : IsWordChar(s[k])
            /\ (p[1] = 1 \/ ~IsWordChar(s[p[1] - 1]))
            /\ (p[2] = Len(s) \/ ~IsWordChar(s[p[2] + 1])) } }

\* { $text: { $search: q } } over the text index on subject and location:
\* a document matches when it holds at least one term of the query.
TextMatches(doc, q) ==
    Tokens(q) \cap (Tokens(doc.subject) \cup Tokens(doc.location)) # {}

TextFind(coll, q) == { id \in DOMAIN coll : TextMatches(coll[id], q) }

\* The query string is handed to $regex as a pattern, unescaped.  Of the
\* pattern language this covers literals, "." (any character) and "("
\* (opens a group): a pattern whose "(" is never closed does not compile
\* and the store rejects the query.
RegexCompiles(p) == \A i \in DOMAIN p : p[i] # "("

\* An unanchored, case-insensitive match of pattern p somewhere in s.
RegexMatches(s, p) ==
    \E k \in 0..(Len(s) - Len(p)) :
        \A j \in DOMAIN p : p[j] = "." \/ Lower(p[j]) = Lower(s[k + j])

\* { $or: [ {subject: {$regex: q, $options: "i"}},
\*          {location: {$regex: q, $options: "i"}} ] }
RegexFind(coll, q) ==
    { id \in DOMAIN coll :
        RegexMatches(coll[id].subject, q) \/ RegexMatches(coll[id].location, q) }

\* The documents a find returns, with their identifiers.
Docs(coll, ids) == [ id \in ids |-> coll[id] ]

----------------------------------------------------------------------------
(* Responses.  res.json(x) sends status 200; res.status(n).json(x) sends n. *)
(* A body is a JSON array of documents or a JSON object with some of the   *)
(* keys error, message, insertedId ("" and <<>> stand for an absent key).  *)

JsonObject(status, error, message, insertedId) ==
    [ status |-> status, json |-> "object", error |-> error,
      message |-> message, insertedId |-> insertedId, docs |-> <<>> ]

JsonArray(status, docs) ==
    [ status |-> status, json |-> "array", error |-> "",
      message |-> "", insertedId |-> <<>>, docs |-> docs ]

JsonError(status, error) == JsonObject(status, error, "", <<>>)

JsonMessage(status, message) == JsonObject(status, "", message, <<>>)

\* The global error-handling middleware: app.use((err, req, res, next) => ..).
ErrorMiddleware(err) ==
    JsonObject(500,
               IF err.message # "" THEN err.message ELSE "Internal Server Error",
               "Something went wrong!", <<>>)

----------------------------------------------------------------------------
(* Request slots.                                                          *)

NoQuery == [ present |-> FALSE, s |-> <<>> ]

NoBody == [ present |-> FALSE, fields |-> <<>> ]

NoOrder == [ hasInfo |-> FALSE, orderInfo |-> "", isArray |-> FALSE, lessonId |-> <<>> ]

NoError == [ message |-> "" ]

\* A slot that has received no request yet.
Idle ==
    [ pc |-> "idle", kind |-> "none", q |-> NoQuery, id |-> <<>>,
      body |-> NoBody, order |-> NoOrder,
      ops |-> <<>>, sent |-> <<>>, fault |-> "none", err |-> NoError ]

\* The handler returned: it wrote the responses `sent` (in this order).
Finish(rq, sent) == [ rq EXCEPT !.pc = "done", !.sent = rq.sent \o sent ]

\* The handler issued store call `op` and waits for it at `pc`.
Await(rq, pc, op) == [ rq EXCEPT !.pc = pc, !.ops = Append(rq.ops, op) ]

\* The pending store call rejected with `err`; `fault` tells an outage of
\* the store from a query the store refuses.
Rejected(rq, fault, err) == [ rq EXCEPT !.fault = fault, !.err = err ]

----------------------------------------------------------------------------
(* GET /search                                                             *)

\* Mutant of QueryMissing: tests only for an absent parameter
\* (searchQuery === undefined), so ?q= passes.
QueryMissing_OnlyAbsent(q) == ~q.present

\* !searchQuery: the parameter is absent or the empty string.
QueryMissing(q) == ~q.present \/ Len(q.s) = 0

\* Mutant of SearchFallbackReply: the 404 branch lacks its return, so the
\* handler goes on to res.json(regexResults).
SearchFallbackReply_NoReturn(coll, ids) ==
    IF Cardinality(ids) = 0
    THEN << JsonError(404, "No lessons found."), JsonArray(200, Docs(coll, ids)) >>
    ELSE << JsonArray(200, Docs(coll, ids)) >>

\* if (regexResults.length === 0) return 404; return res.json(regexResults)
SearchFallbackReply(coll, ids) ==
    IF Cardinality(ids) = 0
    THEN << JsonError(404, "No lessons found.") >>
    ELSE << JsonArray(200, Docs(coll, ids)) >>

\* catch (error) { ... res.status(500).json(...) }
SearchCatch(rq, fault, err) ==
    Finish(Rejected(rq, fault, err),
           << JsonError(500, "An error occurred during the search.") >>)

\* The handler up to its first await.
Search(r, q) ==
    /\ req[r].pc = "idle"
    /\ LET rq == [ Idle EXCEPT !.kind = "search", !.q = q ] IN
       req' = [ req EXCEPT ![r] =
           IF QueryMissing(q)
           THEN Finish(rq, << JsonError(406, "Search query is required.") >>)
           ELSE Await(rq, "text", "find:text") ]
    /\ UNCHANGED <<lessons, orders>>

\* The full-text find resolved: respond, or issue the fallback find.
SearchTextSettled(r) ==
    /\ req[r].pc = "text"
    /\ LET results == TextFind(lessons, req[r].q.s) IN
       req' = [ req EXCEPT ![r] =
           IF Cardinality(results) = 0
           THEN Await(req[r], "regex", "find:regex")
           ELSE Finish(req[r], << JsonArray(200, Docs(lessons, results)) >>) ]
    /\ UNCHANGED <<lessons, orders>>

\* The fallback find settled: the store refuses a pattern that does not
\* compile (the await throws), otherwise the handler responds.
SearchRegexSettled(r) ==
    /\ req[r].pc = "regex"
    /\ req' = [ req EXCEPT ![r] =
           IF ~RegexCompiles(req[r].q.s)
           THEN SearchCatch(req[r], "query",
                            [ message |-> "Regular expression is invalid" ])
           ELSE Finish(req[r],
                       SearchFallbackReply(lessons, RegexFind(lessons, req[r].q.s))) ]
    /\ UNCHANGED <<lessons, orders>>

\* Either find rejected because the store failed.
SearchRejected(r, err) ==
    /\ req[r].pc \in {"text", "regex"}
    /\ req' = [ req EXCEPT ![r] = SearchCatch(req[r], "outage", err) ]
    /\ UNCHANGED <<lessons, orders>>

----------------------------------------------------------------------------
(* GET /lessons                                                            *)

Lessons(r) ==
    /\ req[r].pc = "idle"
    /\ req' = [ req EXCEPT ![r] =
           Await([ Idle EXCEPT !.kind = "lessons" ], "find", "find:all") ]
    /\ UNCHANGED <<lessons, orders>>

\* .then((classes) => res.json(classes))
LessonsSettled(r) ==
    /\ req[r].pc = "find"
    /\ req' = [ req EXCEPT ![r] =
           Finish(req[r], << JsonArray(200, Docs(lessons, DOMAIN lessons)) >>) ]
    /\ UNCHANGED <<lessons, orders>>

\* .catch((error) => next(error))
LessonsRejected(r, err) ==
    /\ req[r].pc = "find"
    /\ req' = [ req EXCEPT ![r] =
           Finish(Rejected(req[r], "outage", err), << ErrorMiddleware(err) >>) ]
    /\ UNCHANGED <<lessons, orders>>

----------------------------------------------------------------------------
(* POST /order                                                             *)

\* Mutant of AllIdsValid: lessonId.some in place of lessonId.every.
AllIdsValid_Some(lessonId) == \E i \in DOMAIN lessonId : ObjectIdIsValid(lessonId[i])

\* lessonId.every((id) => ObjectId.isValid(id))
AllIdsValid(lessonId) == \A i \in DOMAIN lessonId : ObjectIdIsValid(lessonId[i])

\* Mutant of OrderDocument: the identifiers are stored as ObjectIds
\* (lessonId.map((id) => new ObjectId(id))), not as submitted.
OrderDocument_AsObjectIds(order) ==
    [ orderInfo |-> IF order.hasInfo
                    THEN [ null |-> FALSE, value |-> order.orderInfo ]
                    ELSE [ null |-> TRUE, value |-> "" ],
      lessonId |-> [ i \in DOMAIN order.lessonId |-> NewObjectId(order.lessonId[i]) ] ]

\* The document handed to insertOne: { orderInfo, lessonId }.  A body
\* without orderInfo gives the key the value undefined, which the driver
\* stores as null.
OrderDocument(order) ==
    [ orderInfo |-> IF order.hasInfo
                    THEN [ null |-> FALSE, value |-> order.orderInfo ]
                    ELSE [ null |-> TRUE, value |-> "" ],
      lessonId |-> order.lessonId ]

\* insertOne(doc): the collection with doc stored under a fresh identifier.
InsertedId(coll) == GeneratedObjectId(Cardinality(DOMAIN coll) + 1)

InsertOne(coll, doc) ==
    [ id \in DOMAIN coll \cup {InsertedId(coll)} |->
        IF id \in DOMAIN coll THEN coll[id] ELSE doc ]

\* The handler up to the store call.  A body whose lessonId is no array
\* makes lessonId.every throw; the router passes what a handler throws to
\* the error middleware.
Order(r, order) ==
    /\ req[r].pc = "idle"
    /\ LET rq  == [ Idle EXCEPT !.kind = "order", !.order = order ]
           err == [ message |-> "Cannot read properties of undefined (reading 'every')" ]
       IN
       req' = [ req EXCEPT ![r] =
           IF ~order.isArray
           THEN Finish(Rejected(rq, "throw", err), << ErrorMiddleware(err) >>)
           ELSE IF ~AllIdsValid(order.lessonId)
           THEN Finish(rq, << JsonError(400, "One or more lesson IDs are invalid.") >>)
           ELSE Await(rq, "insert", "insertOne") ]
    /\ UNCHANGED <<lessons, orders>>

\* .then((result) => res.status(201).json({ message, insertedId }))
OrderSettled(r) ==
    /\ req[r].pc = "insert"
    /\ orders' = InsertOne(orders, OrderDocument(req[r].order))
    /\ req' = [ req EXCEPT ![r] =
           Finish(req[r], << JsonObject(201, "", "Order placed successfully",
                                        InsertedId(orders)) >>) ]
    /\ UNCHANGED lessons

\* .catch((error) => next(error))
OrderRejected(r, err) ==
    /\ req[r].pc = "insert"
    /\ req' = [ req EXCEPT ![r] =
           Finish(Rejected(req[r], "outage", err), << ErrorMiddleware(err) >>) ]
    /\ UNCHANGED <<lessons, orders>>

----------------------------------------------------------------------------
(* PUT /updateLesson/:id                                                   *)

\* !updatedData || Object.keys(updatedData).length === 0
BodyEmpty(body) == ~body.present \/ Cardinality(DOMAIN body.fields) = 0

\* Mutant of SetFields: the document is replaced by the body (the update
\* lacks its $set).
SetFields_Replace(doc, fields) == fields

\* { $set: fields } applied to one document: the named fields take the
\* given values, the others stay.
SetFields(doc, fields) ==
    [ f \in DOMAIN doc \cup DOMAIN fields |->
        IF f \in DOMAIN fields THEN fields[f] ELSE doc[f] ]

\* Mutant of UpdateOne: the update is issued with { upsert: true }.
UpdateOne_Upsert(coll, oid, fields) ==
    [ id \in DOMAIN coll \cup {oid} |->
        IF id # oid THEN coll[id]
        ELSE IF oid \in DOMAIN coll
             THEN [ f \in DOMAIN coll[oid] \cup DOMAIN fields |->
                      IF f \in DOMAIN fields THEN fields[f] ELSE coll[oid][f] ]
             ELSE fields ]

\* updateOne({ _id: oid }, { $set: fields }): the collection afterwards.
UpdateOne(coll, oid, fields) ==
    IF oid \in DOMAIN coll
    THEN [ coll EXCEPT ![oid] = SetFields(@, fields) ]
    ELSE coll

\* result.modifiedCount: the number of documents the update changed.
ModifiedCount(before, after) ==
    Cardinality({ id \in DOMAIN before : after[id] # before[id] })

\* if (result.modifiedCount > 0) 200 else 408
UpdateReply(modifiedCount) ==
    IF modifiedCount > 0
    THEN << JsonMessage(200, "Lesson updated successfully") >>
    ELSE << JsonError(408, "Lesson not found or no fields changed.") >>

UpdateLesson(r, id, body) ==
    /\ req[r].pc = "idle"
    /\ LET rq == [ Idle EXCEPT !.kind = "update", !.id = id, !.body = body ] IN
       req' = [ req EXCEPT ![r] =
           IF ~ObjectIdIsValid(id)
           THEN Finish(rq, << JsonError(408, "Invalid lesson ID.") >>)
           ELSE IF BodyEmpty(body)
           THEN Finish(rq, << JsonError(408, "No data provided for update.") >>)
           ELSE Await(rq, "update", "updateOne") ]
    /\ UNCHANGED <<lessons, orders>>

UpdateSettled(r) ==
    /\ req[r].pc = "update"
    /\ lessons' = UpdateOne(lessons, NewObjectId(req[r].id), req[r].body.fields)
    /\ req' = [ req EXCEPT ![r] =
           Finish(req[r], UpdateReply(ModifiedCount(lessons, lessons'))) ]
    /\ UNCHANGED orders

UpdateRejected(r, err) ==
    /\ req[r].pc = "update"
    /\ req' = [ req EXCEPT ![r] =
           Finish(Rejected(req[r], "outage", err), << ErrorMiddleware(err) >>) ]
    /\ UNCHANGED <<lessons, orders>>

----------------------------------------------------------------------------
(* DELETE /deleteLesson/:id                                                *)

\* deleteOne({ _id: oid }): the collection afterwards.
DeleteOne(coll, oid) == [ id \in (DOMAIN coll) \ {oid} |-> coll[id] ]

\* result.deletedCount
DeletedCount(before, after) == Cardinality(DOMAIN before) - Cardinality(DOMAIN after)

\* Mutant of DeleteReply: deletedCount >= 0 in place of deletedCount > 0.
DeleteReply_AnyCount(deletedCount) ==
    IF deletedCount >= 0
    THEN << JsonMessage(200, "Lesson deleted successfully") >>
    ELSE << JsonError(408, "Lesson not found.") >>

\* if (result.deletedCount > 0) 200 else 408
DeleteReply(deletedCount) ==
    IF deletedCount > 0
    THEN << JsonMessage(200, "Lesson deleted successfully") >>
    ELSE << JsonError(408, "Lesson not found.") >>

DeleteLesson(r, id) ==
    /\ req[r].pc = "idle"
    /\ LET rq == [ Idle EXCEPT !.kind = "delete", !.id = id ] IN
       req' = [ req EXCEPT ![r] =
           IF ~ObjectIdIsValid(id)
           THEN Finish(rq, << JsonError(408, "Invalid lesson ID.") >>)
           ELSE Await(rq, "delete", "deleteOne") ]
    /\ UNCHANGED <<lessons, orders>>

DeleteSettled(r) ==
    /\ req[r].pc = "delete"
    /\ lessons' = DeleteOne(lessons, NewObjectId(req[r].id))
    /\ req' = [ req EXCEPT ![r] =
           Finish(req[r], DeleteReply(DeletedCount(lessons, lessons'))) ]
    /\ UNCHANGED orders

DeleteRejected(r, err) ==
    /\ req[r].pc = "delete"
    /\ req' = [ req EXCEPT ![r] =
           Finish(Rejected(req[r], "outage", err), << ErrorMiddleware(err) >>) ]
    /\ UNCHANGED <<lessons, orders>>

----------------------------------------------------------------------------
(* The inputs the specifications draw from.                                *)

IdA      == Rep("a", ObjectIdHexLen)             \* the id of the first seeded lesson
IdAUpper == Rep("A", ObjectIdHexLen)             \* the same ObjectId, in upper case
IdB      == Rep("b", ObjectIdHexLen)             \* the id of the second seeded lesson
IdC      == Rep("c", ObjectIdHexLen)             \* well formed, no lesson has it
IdShort  == Rep("a", ObjectIdHexLen - 1)         \* one digit short
IdNotHex == Rep("a", ObjectIdHexLen - 1) \o <<"g">> \* 24 characters, one not hex

SeedLessons ==
    (IdA :> [ subject |-> <<"M","a","t","h">>, location |-> <<"N","W">> ]) @@
    (IdB :> [ subject |-> <<"A","r","t">>,     location |-> <<"R","m",".","2">> ])

\* The contents the lessons collection may start with.
LessonContents == { Docs(SeedLessons, ids) : ids \in SUBSET (DOMAIN SeedLessons) }

Query(s) == [ present |-> TRUE, s |-> s ]

Queries ==
    { NoQuery,
      Query(<<>>),
      Query(<<"m","a","t","h">>),              \* a term of lesson A
      Query(<<"a","r","t"," ","n","w">>),      \* a term of each lesson
      Query(<<"a","t">>),                      \* inside "Math", no term
      Query(<<"z","z">>),                      \* in no lesson
      Query(<<".">>),
      Query(<<"m",".","t">>),
      Query(<<"(">>) }

Fields(f) == [ present |-> TRUE, fields |-> f ]

UpdateBodies ==
    { NoBody,
      Fields(<<>>),
      Fields([ subject |-> <<"M","a","t","h">> ]),  \* what lesson A holds already
      Fields([ subject |-> <<"A","r","t">> ]),
      Fields([ price |-> 5 ]) }

LessonIds == { IdA, IdAUpper, IdC, IdNotHex, IdShort }

LessonIdArray(info, ids) ==
    [ hasInfo |-> info # "", orderInfo |-> info, isArray |-> TRUE, lessonId |-> ids ]

OrderBodies ==
    { NoOrder,
      LessonIdArray("", <<>>),
      LessonIdArray("Ann", <<IdA>>),
      LessonIdArray("Bob", <<IdC, IdAUpper, IdC>>),
      LessonIdArray("Ann", <<IdA, IdShort>>),
      LessonIdArray("Bob", <<IdNotHex, IdA, IdC>>) }

\* The errors a failing store rejects with (one has no message).
StoreErrors == { [ message |-> "connection 3 to 10.0.0.7:27017 closed" ], NoError }

\* The server starts on the collection that holds both seeded lessons.
InitSeeded ==
    /\ lessons = SeedLessons
    /\ orders = <<>>
    /\ req = [ r \in Req |-> Idle ]

----------------------------------------------------------------------------
(* Specifications.                                                         *)

Init ==
    /\ lessons \in LessonContents
    /\ orders = <<>>
    /\ req = [ r \in Req |-> Idle ]

\* GET /search alone, on every content of the collection.
NextSearch ==
    \E r \in Req :
        \/ \E q \in Queries : Search(r, q)
        \/ SearchTextSettled(r)
        \/ SearchRegexSettled(r)
        \/ \E e \in StoreErrors : SearchRejected(r, e)

SpecSearch == Init /\ [][NextSearch]_vars

\* POST /order alone.
NextOrder ==
    \E r \in Req :
        \/ \E o \in OrderBodies : Order(r, o)
        \/ OrderSettled(r)
        \/ \E e \in StoreErrors : OrderRejected(r, e)

SpecOrder == Init /\ [][NextOrder]_vars

\* The two handlers that write the lessons collection.
NextLesson ==
    \E r \in Req :
        \/ \E id \in LessonIds, b \in UpdateBodies : UpdateLesson(r, id, b)
        \/ UpdateSettled(r)
        \/ \E e \in StoreErrors : UpdateRejected(r, e)
        \/ \E id \in LessonIds : DeleteLesson(r, id)
        \/ DeleteSettled(r)
        \/ \E e \in StoreErrors : DeleteRejected(r, e)

SpecLesson == Init /\ [][NextLesson]_vars

\* All five handlers, concurrently, on one store.  The inputs are one of
\* each kind a handler tells apart.
CoreQueries ==
    { NoQuery, Query(<<"m","a","t","h">>), Query(<<"a","t">>), Query(<<"z","z">>),
      Query(<<"(">>) }

CoreOrderBodies ==
    { NoOrder, LessonIdArray("Ann", <<IdA>>), LessonIdArray("Ann", <<IdA, IdShort>>) }

CoreLessonIds == { IdA, IdShort }

CoreUpdateBodies == { Fields(<<>>), Fields([ subject |-> <<"A","r","t">> ]) }

CoreStoreErrors == { [ message |-> "connection 3 to 10.0.0.7:27017 closed" ] }

Receive(r) ==
    \/ \E q \in CoreQueries : Search(r, q)
    \/ Lessons(r)
    \/ \E o \in CoreOrderBodies : Order(r, o)
    \/ \E id \in CoreLessonIds, b \in CoreUpdateBodies : UpdateLesson(r, id, b)
    \/ \E id \in CoreLessonIds : DeleteLesson(r, id)

\* The store call a request waits for resolves.
Resolve(r) ==
    \/ SearchTextSettled(r)
    \/ SearchRegexSettled(r)
    \/ LessonsSettled(r)
    \/ OrderSettled(r)
    \/ UpdateSettled(r)
    \/ DeleteSettled(r)

\* The store call a request waits for rejects.
Reject(r) ==
    \E e \in CoreStoreErrors :
        \/ SearchRejected(r, e)
        \/ LessonsRejected(r, e)
        \/ OrderRejected(r, e)
        \/ UpdateRejected(r, e)
        \/ DeleteRejected(r, e)

Next == \E r \in Req : Receive(r) \/ Resolve(r) \/ Reject(r)

Spec == Init /\ [][Next]_vars

\* The same handlers on the seeded collection, where every store call
\* eventually resolves or rejects.
FairSpec ==
    InitSeeded /\ [][Next]_vars /\ \A r \in Req : WF_vars(Resolve(r) \/ Reject(r))

----------------------------------------------------------------------------
(* What the claims speak of.                                               *)

\* The one response of a request that got exactly one.
Response(rq) == rq.sent[1]

\* text contains s as a case-insensitive substring.
ContainsIgnoringCase(text, s) ==
    \E k \in 0..(Len(text) - Len(s)) :
        \A j \in DOMAIN s : Lower(s[j]) = Lower(text[k + j])

\* The lessons whose subject or location contains s.
SubstringFind(coll, s) ==
    { id \in DOMAIN coll :
        \/ ContainsIgnoringCase(coll[id].subject, s)
        \/ ContainsIgnoringCase(coll[id].location, s) }

\* The step finishes request r: its handler returns in this step.
Finishes(r) == req[r].pc # "done" /\ req'[r].pc = "done"

\* An array of identifier strings of which at least one is not valid.
HasInvalidId(order) ==
    order.isArray /\ \E i \in DOMAIN order.lessonId : ~ObjectIdIsValid(order.lessonId[i])

----------------------------------------------------------------------------
(* GET /search (under SpecSearch the lessons collection never changes, so  *)
(* `lessons` is the content every find of a request ran on).               *)

\* C1: a search with a non-empty query, on a collection in which no lesson
\* matches it (no lesson holds a term of it, none contains it as a
\* substring), answers 404 when the store does not fail.
C1_NoMatchAnswers404 ==
    \A r \in Req :
        ( /\ req[r].kind = "search"
          /\ req[r].pc = "done"
          /\ ~QueryMissing(req[r].q)
          /\ req[r].fault # "outage"
          /\ TextFind(lessons, req[r].q.s) = {}
          /\ SubstringFind(lessons, req[r].q.s) = {} )
        => ( Len(req[r].sent) = 1 /\ Response(req[r]).status = 404 )

\* C2: a search whose q is absent or empty answers 406, once, and issues
\* no store call.
C2_MissingQueryAnswers406 ==
    \A r \in Req :
        ( /\ req[r].kind = "search"
          /\ (~req[r].q.present \/ req[r].q.s = <<>>) )
        => ( /\ req[r].pc = "done"
             /\ Len(req[r].sent) = 1
             /\ Response(req[r]).status = 406
             /\ req[r].ops = <<>> )

C2_Witness ==
    \E r1, r2 \in Req :
        /\ req[r1].kind = "search" /\ ~req[r1].q.present
        /\ req[r2].kind = "search" /\ req[r2].q.present /\ req[r2].q.s = <<>>
        /\ Response(req[r1]).status = 406
        /\ Response(req[r2]).status = 406

\* C3: the fallback find is issued only when the full-text find returned
\* nothing; a search that the store does not fail answers 200 with exactly
\* the full-text matches when there are some, and otherwise 200 with
\* exactly the lessons containing the query as a case-insensitive
\* substring when there are some.
C3_TwoStageLookup ==
    \A r \in Req :
        ( req[r].kind = "search" /\ ~QueryMissing(req[r].q) ) =>
        LET text == TextFind(lessons, req[r].q.s)
            sub  == SubstringFind(lessons, req[r].q.s)
        IN  /\ ("find:regex" \in Range(req[r].ops) => text = {})
            /\ ( req[r].pc = "done" /\ req[r].fault # "outage" /\ text # {} )
               => req[r].sent = << JsonArray(200, Docs(lessons, text)) >>
            /\ ( req[r].pc = "done" /\ req[r].fault # "outage" /\ text = {} /\ sub # {} )
               => req[r].sent = << JsonArray(200, Docs(lessons, sub)) >>

----------------------------------------------------------------------------
(* POST /order                                                             *)

\* C4: an order whose lessonId array holds an invalid identifier string,
\* at any position, answers 400, once; no insert is issued for it and the
\* step that answers leaves the order collection as it was.
C4_InvalidIdAnswers400 ==
    [][ \A r \in Req :
          ( req'[r].kind = "order" /\ HasInvalidId(req'[r].order) )
          => ( /\ req'[r].pc = "done"
               /\ Len(req'[r].sent) = 1
               /\ Response(req'[r]).status = 400
               /\ req'[r].ops = <<>>
               /\ (req[r].pc = "idle" => orders' = orders) ) ]_vars

\* Two refused orders, the invalid entry last in one and first in the
\* other, beside no stored order.
C4_Witness ==
    \E r1, r2 \in Req :
        /\ req[r1].kind = "order" /\ req[r2].kind = "order"
        /\ req[r1].order.lessonId = <<IdA, IdShort>>
        /\ req[r2].order.lessonId = <<IdNotHex, IdA, IdC>>
        /\ Response(req[r1]).status = 400
        /\ Response(req[r2]).status = 400
        /\ orders = <<>>

\* C5: an order whose lessonId entries are all valid, when the insert does
\* not fail, answers 201 with a non-empty insertedId; the answering step
\* adds exactly one document to the order collection, under insertedId,
\* holding the submitted lessonId (same entries, same order) and the
\* submitted orderInfo.
C5_ValidOrderIsStored ==
    [][ \A r \in Req :
          ( /\ Finishes(r)
            /\ req'[r].kind = "order"
            /\ req'[r].order.isArray
            /\ \A i \in DOMAIN req'[r].order.lessonId :
                   ObjectIdIsValid(req'[r].order.lessonId[i])
            /\ req'[r].fault = "none" )
          => LET resp == Response(req'[r])
                 id   == resp.insertedId
                 o    == req'[r].order
             IN  /\ Len(req'[r].sent) = 1
                 /\ resp.status = 201
                 /\ Len(id) > 0
                 /\ id \notin DOMAIN orders
                 /\ DOMAIN orders' = DOMAIN orders \cup {id}
                 /\ \A old \in DOMAIN orders : orders'[old] = orders[old]
                 /\ orders'[id].lessonId = o.lessonId
                 /\ (o.hasInfo =>
                        orders'[id].orderInfo = [ null |-> FALSE, value |-> o.orderInfo ]) ]_vars

\* Two stored orders; one names a lesson that does not exist, and an
\* identifier in upper case.
C5_Witness ==
    \E r1, r2 \in Req :
        /\ r1 # r2
        /\ req[r1].kind = "order" /\ req[r2].kind = "order"
        /\ req[r1].pc = "done" /\ req[r2].pc = "done"
        /\ Response(req[r1]).status = 201 /\ Response(req[r2]).status = 201
        /\ req[r1].order.lessonId = <<IdC, IdAUpper, IdC>>
        /\ IdC \notin DOMAIN lessons
        /\ Cardinality(DOMAIN orders) = 2
        /\ orders[Response(req[r1]).insertedId].lessonId = <<IdC, IdAUpper, IdC>>

----------------------------------------------------------------------------
(* PUT /updateLesson/:id and DELETE /deleteLesson/:id                      *)

\* C6: an update answers 408, once, and leaves every lesson as it was when
\* the path id is not valid, when the body is empty, or when the id is
\* valid, the body is not empty, the update resolves and no lesson has
\* that id; in the first two cases no store call is issued.
C6_RefusedUpdateChangesNothing ==
    [][ \A r \in Req :
          ( Finishes(r) /\ req'[r].kind = "update" ) =>
          LET id      == req'[r].id
              body    == req'[r].body
              noData  == ~body.present \/ DOMAIN body.fields = {}
              refused == /\ Len(req'[r].sent) = 1
                         /\ Response(req'[r]).status = 408
                         /\ lessons' = lessons
          IN  /\ (~ObjectIdIsValid(id) \/ noData) => (refused /\ req'[r].ops = <<>>)
              /\ ( /\ ObjectIdIsValid(id) /\ ~noData
                   /\ req'[r].fault = "none"
                   /\ NewObjectId(id) \notin DOMAIN lessons ) => refused ]_vars

\* An update of a well-formed id that no lesson has was sent to the store
\* and answered 408, beside an update refused for its empty body.
C6_Witness ==
    \E r1, r2 \in Req :
        /\ req[r1].kind = "update" /\ req[r1].id = IdC
        /\ req[r1].ops = <<"updateOne">> /\ req[r1].fault = "none"
        /\ req[r1].pc = "done" /\ Response(req[r1]).status = 408
        /\ req[r2].kind = "update" /\ req[r2].id = IdA
        /\ req[r2].body.present /\ DOMAIN req[r2].body.fields = {}
        /\ req[r2].pc = "done" /\ Response(req[r2]).status = 408
        /\ lessons = SeedLessons

\* C7: an update of an existing lesson with a non-empty body, when the
\* store does not fail, is a partial merge: the fields of the body hold
\* the submitted values, the lesson's other fields and all other lessons
\* are as before; the answer is 200 exactly when a document changed and
\* 408 otherwise.
C7_UpdateIsPartialMerge ==
    [][ \A r \in Req :
          ( /\ Finishes(r)
            /\ req'[r].kind = "update"
            /\ ObjectIdIsValid(req'[r].id)
            /\ req'[r].body.present /\ DOMAIN req'[r].body.fields # {}
            /\ req'[r].fault = "none"
            /\ NewObjectId(req'[r].id) \in DOMAIN lessons )
          => LET oid    == NewObjectId(req'[r].id)
                 fields == req'[r].body.fields
                 status == Response(req'[r]).status
             IN  /\ DOMAIN lessons' = DOMAIN lessons
                 /\ DOMAIN lessons'[oid] = DOMAIN lessons[oid] \cup DOMAIN fields
                 /\ \A f \in DOMAIN fields : lessons'[oid][f] = fields[f]
                 /\ \A f \in DOMAIN lessons[oid] \ DOMAIN fields :
                        lessons'[oid][f] = lessons[oid][f]
                 /\ \A other \in DOMAIN lessons \ {oid} : lessons'[other] = lessons[other]
                 /\ Len(req'[r].sent) = 1
                 /\ (status = 200 <=> lessons' # lessons)
                 /\ (status = 408 <=> lessons' = lessons) ]_vars

\* Lesson A was sent the subject it already had (408) and a price (200):
\* it holds the price and its subject and location.
C7_Witness ==
    \E r1, r2 \in Req :
        /\ req[r1].kind = "update" /\ req[r2].kind = "update"
        /\ req[r1].body.fields = [ subject |-> <<"M","a","t","h">> ]
        /\ req[r2].body.fields = [ price |-> 5 ]
        /\ req[r1].pc = "done" /\ Response(req[r1]).status = 408
        /\ req[r1].ops = <<"updateOne">> /\ req[r1].fault = "none"
        /\ req[r2].pc = "done" /\ Response(req[r2]).status = 200
        /\ IdA \in DOMAIN lessons
        /\ lessons[IdA] = [ subject |-> <<"M","a","t","h">>,
                            location |-> <<"N","W">>, price |-> 5 ]

\* C8: of the deletes of one lesson id that the store does not fail, one
\* that reaches the store while the lesson exists answers 200 and removes
\* exactly that lesson; one that reaches it after the lesson is gone
\* answers 408 and removes nothing; at most one answers 200.
C8_OneDeleteSucceeds ==
    [][ /\ \A r \in Req :
             ( /\ Finishes(r)
               /\ req'[r].kind = "delete"
               /\ ObjectIdIsValid(req'[r].id)
               /\ req'[r].fault = "none" )
             => LET oid == NewObjectId(req'[r].id) IN
                /\ Len(req'[r].sent) = 1
                /\ oid \in DOMAIN lessons =>
                     /\ Response(req'[r]).status = 200
                     /\ DOMAIN lessons' = DOMAIN lessons \ {oid}
                     /\ \A id \in DOMAIN lessons' : lessons'[id] = lessons[id]
                /\ oid \notin DOMAIN lessons =>
                     /\ Response(req'[r]).status = 408
                     /\ lessons' = lessons
        /\ \A r1, r2 \in Req :
             ( /\ r1 # r2
               /\ req'[r1].kind = "delete" /\ req'[r2].kind = "delete"
               /\ req'[r1].pc = "done" /\ req'[r2].pc = "done"
               /\ Response(req'[r1]).status = 200
               /\ Response(req'[r2]).status = 200 )
             => NewObjectId(req'[r1].id) # NewObjectId(req'[r2].id) ]_vars

\* Two deletes of lesson A were in flight together (one spelt the id in
\* upper case): one answered 200, the other 408, and only lesson A is gone.
C8_Witness ==
    \E r1, r2 \in Req :
        /\ req[r1].kind = "delete" /\ req[r2].kind = "delete"
        /\ req[r1].id = IdA /\ req[r2].id = IdAUpper
        /\ req[r1].pc = "done" /\ req[r2].pc = "done"
        /\ req[r1].fault = "none" /\ req[r2].fault = "none"
        /\ { Response(req[r1]).status, Response(req[r2]).status } = {200, 408}
        /\ DOMAIN lessons = {IdB}

----------------------------------------------------------------------------
(* Failures of the store.                                                  *)

\* C9: a request whose store call failed answers 500, once, and no key of
\* the body holds the message of the store's error.
C9_FailureBodyIsGeneric ==
    \A r \in Req :
        ( req[r].pc = "done" /\ req[r].fault = "outage" )
        => /\ Len(req[r].sent) = 1
           /\ Response(req[r]).status = 500
           /\ req[r].err.message # "" =>
                /\ Response(req[r]).error # req[r].err.message
                /\ Response(req[r]).message # req[r].err.message

\* C10: a request has no response while its handler runs and exactly one
\* once it returned (never two); a received request stays received; and
\* again and again no request is waiting.  Hence every received request
\* is eventually answered, exactly once, on every path of every handler
\* and for every interleaving of the requests in flight.
C10_ExactlyOneResponse ==
    /\ [](\A r \in Req :
             /\ Len(req[r].sent) <= 1
             /\ (req[r].pc = "done" <=> Len(req[r].sent) = 1))
    /\ [][\A r \in Req : req[r].pc # "idle" => req'[r].pc # "idle"]_vars
    /\ []<>(\A r \in Req : req[r].pc \in {"idle", "done"})

\* A search that made both finds and found nothing, beside a request whose
\* store failure went through the error middleware: one response each.
C10_Witness ==
    \E r1, r2 \in Req :
        /\ req[r1].kind = "search"
        /\ req[r1].ops = <<"find:text", "find:regex">>
        /\ req[r1].pc = "done" /\ Len(req[r1].sent) = 1
        /\ Response(req[r1]).status = 404
        /\ req[r2].kind \in {"lessons", "order", "update", "delete"}
        /\ req[r2].fault = "outage"
        /\ req[r2].pc = "done" /\ Len(req[r2].sent) = 1
        /\ Response(req[r2]).status = 500

=============================================================================
